---- MODULE Spec2Model ----
(***************************************************************************)
(* veloren-inventory-bot: the tick-driven session loop of src/main.rs.     *)
(* The Client (session) and the Clock are external library objects; the    *)
(* Client's fields the bot reads are state variables and a session advance *)
(* (client.tick) changes them nondeterministically.                        *)
(***************************************************************************)
EXTENDS Integers, Sequences, FiniteSets, TLC

\* ---------------------------------------------------------------- bounds
\* most advances one call of until may perform
MaxUntilAdv == 3
\* most events one session advance returns
MaxEvents == 1

\* ---------------------------------------------------------------- domains
Uids == {1, 2}
Phases == {"Mutate", "Review"}
Targets == {"Friend", "Unknown"}

\* Option<T>: the empty sequence is None, <<x>> is Some(x)
None == <<>>
Some(x) == <<x>>
Option(S) == {None} \cup {Some(x) : x \in S}

\* character_list().characters: ordered, ids distinct
Rosters == {<<>>, <<1>>, <<2, 1>>}

\* player_list(): Uid -> player_alias, for the uids the server announced
PlayerLists == { <<>>, (1 :> "Friend") @@ (2 :> "Stranger") }

\* pending_trade().parties is an ordered pair of distinct uids
Trades == [parties : {<<1, 2>>, <<2, 1>>}, phase : Phases]

\* events a tick returns: Tell chats (by sender) and Disconnect
EventKinds == [kind : {"Tell"}, from : Uids] \cup {[kind |-> "Disconnect", from |-> 0]}
RECURSIVE SeqsUpTo(_, _)
SeqsUpTo(S, n) ==
    IF n = 0 THEN {<<>>}
    ELSE LET shorter == SeqsUpTo(S, n - 1)
         IN  shorter \cup {Append(s, e) : s \in {t \in shorter : Len(t) = n - 1}, e \in S}
EventLists == SeqsUpTo(EventKinds, MaxEvents)

\* an action issued on the client: operation, numeric argument, text argument
Act(op, id, s) == [op |-> op, id |-> id, s |-> s]

VARIABLES
    pc,              \* control point of the single thread
    target,          \* env TARGET_USERNAME
    presence,        \* client.presence().is_some()
    character_list,  \* client.character_list(): [loading, characters]
    requested,       \* a request_character is awaiting the server's answer
    player_list,     \* client.player_list()
    invite,          \* client.invite(): Option<Uid>
    is_trading,      \* client.is_trading()
    pending_trade,   \* client.pending_trade(): Option<[parties, phase]>
    events,          \* main's `events` of the current iteration
    tick,            \* until's `tick` result: [ok, events]
    acts,            \* actions issued on the client since the last advance or cleanup
    lastAdv,         \* the most recent advance: [who, ok]
    call,            \* the running until call: outcome of each advance, step counts
    stage,           \* per loop: the last step of its current iteration
    gap,             \* the cleanup / clock steps since the last advance of any loop
    party_inventories, \* on_event's summary of the trade parties' inventories
    spawn            \* the running spawn: creations issued, first loaded roster, first
                     \* request, and the roster and presence its latest advance left

session == <<presence, character_list, requested, player_list, invite, is_trading, pending_trade>>
vars == <<pc, target, presence, character_list, requested, player_list, invite, is_trading,
          pending_trade, events, tick, acts, lastAdv, call, stage, gap, party_inventories,
          spawn>>

Loops == {"main", "spawn", "until"}
NoGap == <<>>
NoTick == [ok |-> TRUE, events |-> <<>>]
NoCall == [hist |-> <<>>, evals |-> 0, cleanup |-> 0, clock |-> 0, got |-> <<>>]
NoSpawn == [creates |-> "none", first |-> "loading", firstOp |-> "none", seen |-> "nothing",
            present |-> FALSE]
NoInventories == <<>>
OneMore(n) == IF n = "none" THEN "one" ELSE "many"

Init ==
    /\ pc = "main_tick"
    /\ target \in Targets
    /\ presence = FALSE
    /\ character_list = [loading |-> FALSE, characters |-> <<>>]
    /\ requested = FALSE
    /\ player_list \in PlayerLists
    /\ invite = None
    /\ is_trading = FALSE
    /\ pending_trade = None
    /\ events = <<>>
    /\ tick = NoTick
    /\ acts = <<>>
    /\ lastAdv = [who |-> "none", ok |-> TRUE]
    /\ call = NoCall
    /\ stage = [l \in Loops |-> "idle"]
    /\ gap = NoGap
    /\ party_inventories = NoInventories
    /\ spawn = NoSpawn

\* ---------------------------------------------------------------- the session
Snapshot == [presence |-> presence, character_list |-> character_list,
             requested |-> requested, player_list |-> player_list, invite |-> invite,
             is_trading |-> is_trading, pending_trade |-> pending_trade]

\* client.tick(..): the sessions one advance can leave behind.  A failed advance
\* leaves the fields as they were; a successful one has handled whatever the
\* server sent: an answer to a roster request, an answer to a character request
\* (or the loss of presence), any change of the player list and, for a client
\* that is in the game before or after the advance, of the invite and the trade.
Advance(ok) ==
    IF ~ok THEN {Snapshot}
    ELSE { s \in [presence : IF presence \/ requested THEN BOOLEAN ELSE {FALSE},
                  character_list : IF character_list.loading
                                   THEN {character_list}
                                        \cup [loading : {FALSE}, characters : Rosters]
                                   ELSE {character_list},
                  requested : {requested, FALSE},
                  player_list : PlayerLists,
                  invite : Option(Uids),
                  is_trading : BOOLEAN,
                  pending_trade : Option(Trades)] :
             /\ s.requested = (requested /\ ~s.presence)
             /\ (~presence /\ ~s.presence) =>
                   /\ s.invite = invite
                   /\ s.is_trading = is_trading
                   /\ s.pending_trade = pending_trade }

Install(s) ==
    /\ presence' = s.presence
    /\ character_list' = s.character_list
    /\ requested' = s.requested
    /\ player_list' = s.player_list
    /\ invite' = s.invite
    /\ is_trading' = s.is_trading
    /\ pending_trade' = s.pending_trade

\* ---------------------------------------------------------------- bookkeeping
Advanced(who, ok, issued) ==
    /\ acts' = issued
    /\ lastAdv' = [who |-> who, ok |-> ok]
    /\ gap' = NoGap

Cleaned(who) ==
    /\ stage' = [stage EXCEPT ![who] = "cleanup"]
    /\ gap' = Append(gap, "cleanup")

Clocked(who) ==
    /\ stage' = [stage EXCEPT ![who] = "clock"]
    /\ gap' = Append(gap, "clock")

\* ---------------------------------------------------------------- main
\* (mutant) the Err arm falls through instead of breaking
AfterMainTick_Continue(ok) == "on_event"

\* where main's loop goes after its advance
AfterMainTick(ok) == IF ok THEN "on_event" ELSE "done"

MainTick ==
    /\ pc = "main_tick"
    /\ \E ok \in BOOLEAN : \E s \in Advance(ok) : \E ev \in EventLists :
         /\ Install(s)
         /\ events' = IF ok THEN ev ELSE <<>>
         /\ Advanced("main", ok, <<>>)
         /\ pc' = AfterMainTick(ok)
    /\ stage' = [stage EXCEPT !["main"] = "adv"]
    /\ UNCHANGED <<target, party_inventories, tick, call, spawn>>

\* (mutant) on_event goes to the invite and the trade without the presence check
AfterPresenceCheck_Skip(present) == "negotiate"

\* on_event's first statement: a client without presence spawns first
AfterPresenceCheck(present) == IF ~present THEN "spawn_load" ELSE "negotiate"

\* on_event, up to the presence check
OnEvent ==
    /\ pc = "on_event"
    /\ pc' = AfterPresenceCheck(presence)
    /\ UNCHANGED <<target, party_inventories, session, events, tick, acts, lastAdv, call, stage, gap, spawn>>

\* ---------------------------------------------------------------- alias_of_uid
alias_of_uid(uid) ==
    IF uid \in DOMAIN player_list THEN player_list[uid] ELSE "Unknown"

\* ---------------------------------------------------------------- on_event: invite
\* (mutant) the alias comparison is inverted
InviteActs_Inverted ==
    IF invite # None /\ Head(invite) \in DOMAIN player_list
    THEN IF player_list[Head(invite)] # target
         THEN <<Act("accept_invite", 0, "")>>
         ELSE <<Act("decline_invite", 0, "")>>
    ELSE <<>>

\* the invite branch: the actions it issues on this snapshot
InviteActs ==
    IF invite # None /\ Head(invite) \in DOMAIN player_list
    THEN IF player_list[Head(invite)] = target
         THEN <<Act("accept_invite", 0, "")>>
         ELSE <<Act("decline_invite", 0, "")>>
    ELSE <<>>

\* ---------------------------------------------------------------- on_event: trade
\* (mutant) the initiator is taken to be the last party
TradeActs_LastParty ==
    IF is_trading /\ pending_trade # None
    THEN LET pending == Head(pending_trade)
             initiator_id == pending.parties[Len(pending.parties)]
         IN  IF alias_of_uid(initiator_id) = target
             THEN <<Act("perform_trade_action", 0, pending.phase)>>
             ELSE <<>>
    ELSE <<>>

\* (mutant) a trade is accepted only in a tick that did not have to spawn
TradeActs_NotAfterSpawn ==
    IF is_trading /\ pending_trade # None /\ lastAdv.who = "main"
    THEN LET pending == Head(pending_trade)
             initiator_id == Head(pending.parties)
         IN  IF alias_of_uid(initiator_id) = target
             THEN <<Act("perform_trade_action", 0, pending.phase)>>
             ELSE <<>>
    ELSE <<>>

\* (mutant) the trade is accepted when any of its parties is the target
TradeActs_AnyParty ==
    IF is_trading /\ pending_trade # None
    THEN LET pending == Head(pending_trade)
         IN  IF \E i \in DOMAIN pending.parties : alias_of_uid(pending.parties[i]) = target
             THEN <<Act("perform_trade_action", 0, pending.phase)>>
             ELSE <<>>
    ELSE <<>>

\* the trade branch: the actions it issues on this snapshot
TradeActs ==
    IF is_trading /\ pending_trade # None
    THEN LET pending == Head(pending_trade)
             initiator_id == Head(pending.parties)
         IN  IF alias_of_uid(initiator_id) = target
             THEN <<Act("perform_trade_action", 0, pending.phase)>>
             ELSE <<>>
    ELSE <<>>

\* the summaries made after an accept: party_inventories starts as [None, None]
\* and gets Some(ReducedInventory) for each party whose entity and inventory
\* the ECS has (`has`); the other parties are skipped
PartyInventories(parties, has) ==
    [i \in 1..Len(parties) |-> IF has[parties[i]] THEN "Some" ELSE "None"]

\* on_event after the presence check: invite, then trade
Negotiate ==
    /\ pc = "negotiate"
    /\ acts' = acts \o InviteActs \o TradeActs
    /\ IF TradeActs # <<>>
         THEN \E has \in [Uids -> BOOLEAN] :
                 party_inventories' = PartyInventories(Head(pending_trade).parties, has)
         ELSE party_inventories' = NoInventories
    \* accept_invite and decline_invite take the pending invite
    /\ invite' = IF InviteActs # <<>> THEN None ELSE invite
    /\ pc' = "main_events"
    /\ UNCHANGED <<target, presence, character_list, requested, player_list, is_trading,
                   pending_trade, events, tick, lastAdv, call, stage, gap, spawn>>

\* ---------------------------------------------------------------- main: events
\* (mutant) every Tell is answered with a trade invite, whoever sent it
EventActs_AnyTell(evs) ==
    LET tells == SelectSeq(evs, LAMBDA e : e.kind = "Tell")
    IN  [i \in 1..Len(tells) |-> Act("send_invite", tells[i].from, "Trade")]

RECURSIVE EventActs(_)
\* the for loop over the tick's events: a Tell from the target is answered
\* with a trade invite
EventActs(evs) ==
    IF evs = <<>> THEN <<>>
    ELSE LET event == Head(evs)
             now == IF event.kind = "Tell" /\ alias_of_uid(event.from) = target
                    THEN <<Act("send_invite", event.from, "Trade")>>
                    ELSE <<>>
         IN  now \o EventActs(Tail(evs))

MainEvents ==
    /\ pc = "main_events"
    /\ acts' = acts \o EventActs(events)
    \* on_event's locals are gone
    /\ party_inventories' = NoInventories
    /\ pc' = "main_cleanup"
    /\ UNCHANGED <<target, session, events, tick, lastAdv, call, stage, gap, spawn>>

MainCleanup ==
    /\ pc = "main_cleanup"
    /\ Cleaned("main")
    /\ acts' = <<>>
    /\ events' = <<>>
    /\ pc' = "main_clock"
    /\ UNCHANGED <<target, party_inventories, session, tick, lastAdv, call, spawn>>

MainClock ==
    /\ pc = "main_clock"
    /\ Clocked("main")
    /\ pc' = "main_tick"
    /\ UNCHANGED <<target, party_inventories, session, events, tick, acts, lastAdv, call, spawn>>

\* ---------------------------------------------------------------- spawn_first_character
SpawnLoad ==
    /\ pc = "spawn_load"
    \* load_character_list marks the roster as loading and asks the server for it
    /\ character_list' = [character_list EXCEPT !.loading = TRUE]
    /\ spawn' = NoSpawn
    /\ pc' = "spawn_while"
    /\ UNCHANGED <<target, party_inventories, presence, requested, player_list, invite, is_trading,
                   pending_trade, events, tick, acts, lastAdv, call, stage, gap>>

\* the while condition; leaving the loop returns into on_event
SpawnWhile ==
    /\ pc = "spawn_while"
    /\ IF ~presence
         THEN /\ pc' = "spawn_tick"
              /\ UNCHANGED <<tick, call, stage, spawn>>
         ELSE /\ pc' = "negotiate"
              /\ tick' = NoTick
              /\ call' = NoCall
              /\ spawn' = NoSpawn
              /\ stage' = [stage EXCEPT !["spawn"] = "idle", !["until"] = "idle"]
    /\ UNCHANGED <<target, party_inventories, session, events, acts, lastAdv, gap>>

\* (mutant) a loaded roster with characters is left alone
SpawnBranch_NeverRequest(cl) ==
    IF ~cl.loading /\ Len(cl.characters) = 0 THEN "create" ELSE "wait"

\* (mutant) a loaded roster always leads to a creation
SpawnBranch_AlwaysCreate(cl) == IF ~cl.loading THEN "create" ELSE "wait"

\* what the loop body does with the roster a successful advance left
SpawnBranch(cl) ==
    IF ~cl.loading
    THEN IF Len(cl.characters) > 0 THEN "request" ELSE "create"
    ELSE "wait"

\* (mutant) the last roster entry is asked for
FirstCharacter_Last(cl) == cl.characters[Len(cl.characters)]

\* the character the loop asks for
FirstCharacter(cl) == Head(cl.characters)

\* (mutant) the loop body skips its cleanup
AfterSpawnTick_NoCleanup(branch) == IF branch = "create" THEN "until_tick" ELSE "spawn_clock"

\* where the loop body goes after its advance
AfterSpawnTick(branch) == IF branch = "create" THEN "until_tick" ELSE "spawn_cleanup"

\* request_character(id) or, in until_create_character, create_character(name, ..)
Issued(branch, cl) ==
    CASE branch = "request" -> <<Act("request_character", FirstCharacter(cl), "")>>
      [] branch = "create" -> <<Act("create_character", 0, "Inventory Character")>>
      [] OTHER -> <<>>

\* one pass of the loop body; the advance's Result is used for is_ok() only,
\* the events it carries are dropped with it
SpawnTick ==
    /\ pc = "spawn_tick"
    /\ \E ok \in BOOLEAN : \E s \in Advance(ok) :
         LET cl == s.character_list
             branch == IF ok THEN SpawnBranch(cl) ELSE "wait"
         IN  /\ Advanced("spawn", ok, Issued(branch, cl))
             /\ player_list' = s.player_list
             /\ invite' = s.invite
             /\ is_trading' = s.is_trading
             /\ pending_trade' = s.pending_trade
             \* create_character marks the roster as loading again
             /\ character_list' = IF branch = "create" THEN [cl EXCEPT !.loading = TRUE] ELSE cl
             \* request_character: the client may take itself to be in game at
             \* once, or wait for the server's answer
             /\ IF branch = "request"
                  THEN presence' \in {s.presence, TRUE} /\ requested' = ~presence'
                  ELSE presence' = s.presence /\ requested' = s.requested
             /\ spawn' = [creates |-> IF branch = "create" THEN OneMore(spawn.creates)
                                      ELSE spawn.creates,
                          first |-> IF spawn.first = "loading" /\ ok /\ ~cl.loading
                                    THEN IF cl.characters = <<>> THEN "empty" ELSE "nonempty"
                                    ELSE spawn.first,
                          firstOp |-> IF spawn.firstOp = "none" /\ branch # "wait"
                                      THEN branch ELSE spawn.firstOp,
                          seen |-> IF ~ok THEN "failed"
                                   ELSE IF cl.loading THEN "loading"
                                   ELSE IF cl.characters = <<>> THEN "empty" ELSE "nonempty",
                          present |-> s.presence]
             /\ pc' = AfterSpawnTick(branch)
    /\ tick' = NoTick
    /\ call' = NoCall
    /\ stage' = [stage EXCEPT !["spawn"] = "adv", !["until"] = "idle"]
    /\ UNCHANGED <<target, party_inventories, events>>

SpawnCleanup ==
    /\ pc = "spawn_cleanup"
    /\ Cleaned("spawn")
    /\ acts' = <<>>
    /\ tick' = NoTick
    /\ call' = NoCall
    /\ pc' = "spawn_clock"
    /\ UNCHANGED <<target, party_inventories, session, events, lastAdv, spawn>>

SpawnClock ==
    /\ pc = "spawn_clock"
    /\ Clocked("spawn")
    /\ pc' = "spawn_while"
    /\ UNCHANGED <<target, party_inventories, session, events, tick, acts, lastAdv, call, spawn>>

\* ---------------------------------------------------------------- until
\* the predicate until_create_character waits for
Predicate(s) == ~s.character_list.loading

\* (mutant) the predicate test is inverted
AfterUntilTick_Negated(ok, holds) ==
    IF ok THEN IF ~holds THEN "spawn_cleanup" ELSE "until_cleanup" ELSE "panicked"

\* (mutant) a failed advance falls through to the housekeeping and is retried
AfterUntilTick_Retry(ok, holds) ==
    IF ok /\ holds THEN "spawn_cleanup" ELSE "until_cleanup"

\* (mutant) the loop skips its housekeeping and goes straight to the clock
AfterUntilTick_NoCleanup(ok, holds) ==
    IF ok THEN IF holds THEN "spawn_cleanup" ELSE "until_clock" ELSE "panicked"

\* (mutant) the caller takes an Err like an Ok and goes on with the spawn loop
AfterUntilTick_Swallow(ok, holds) ==
    IF ok /\ ~holds THEN "until_cleanup" ELSE "spawn_cleanup"

\* where until's loop goes after its advance: back to the spawn loop body on
\* Ok (the caller's expect passes), on to the housekeeping while the predicate
\* is false, and out through expect's panic on Err
AfterUntilTick(ok, holds) ==
    IF ok THEN IF holds THEN "spawn_cleanup" ELSE "until_cleanup" ELSE "panicked"

\* what until hands back (or keeps in `tick` for the next round)
UntilResult(ok, ev) == [ok |-> ok, events |-> IF ok THEN ev ELSE <<>>]

UntilTick ==
    /\ pc = "until_tick"
    /\ Len(call.hist) < MaxUntilAdv
    /\ \E ok \in BOOLEAN : \E s \in Advance(ok) : \E ev \in EventLists :
         LET holds == ok /\ Predicate(s)
         IN  /\ Install(s)
             \* a result that is not returned is dropped with the iteration
             /\ tick' = IF ok /\ ~holds THEN NoTick ELSE UntilResult(ok, ev)
             /\ Advanced("until", ok, <<>>)
             /\ call' = [call EXCEPT
                           !.hist = Append(@, IF ~ok THEN "E" ELSE IF holds THEN "T" ELSE "F"),
                           !.evals = IF ok THEN @ + 1 ELSE @,
                           !.got = IF holds THEN ev ELSE <<>>]
             /\ pc' = AfterUntilTick(ok, holds)
    /\ stage' = [stage EXCEPT !["until"] = "adv"]
    /\ UNCHANGED <<target, party_inventories, events, spawn>>

UntilCleanup ==
    /\ pc = "until_cleanup"
    /\ Cleaned("until")
    /\ call' = [call EXCEPT !.cleanup = @ + 1]
    /\ pc' = "until_clock"
    /\ UNCHANGED <<target, party_inventories, session, events, tick, acts, lastAdv, spawn>>

UntilClock ==
    /\ pc = "until_clock"
    /\ Clocked("until")
    /\ call' = [call EXCEPT !.clock = @ + 1]
    /\ pc' = "until_tick"
    /\ UNCHANGED <<target, party_inventories, session, events, tick, acts, lastAdv, spawn>>

\* ---------------------------------------------------------------- the program
Next ==
    \/ MainTick
    \/ OnEvent
    \/ SpawnLoad
    \/ SpawnWhile
    \/ SpawnTick
    \/ UntilTick
    \/ UntilCleanup
    \/ UntilClock
    \/ SpawnCleanup
    \/ SpawnClock
    \/ Negotiate
    \/ MainEvents
    \/ MainCleanup
    \/ MainClock

Spec == Init /\ [][Next]_vars

\* ---------------------------------------------------------------- a well-behaved session
\* The session of the liveness claim: no advance fails, and the roster asked
\* for by create_character comes back, by the last advance until may make
\* here at the latest, with a character in it.  The server is otherwise
\* quiet: the advances bring chat events, but no change of the player list,
\* no invite and no trade (the spawn reads none of them).
Wellbehaved ==
    /\ lastAdv'.ok
    /\ pc = "until_tick" =>
          /\ Len(call'.hist) = MaxUntilAdv => ~character_list'.loading
          /\ ~character_list'.loading => character_list'.characters # <<>>
    /\ UNCHANGED <<player_list, invite, is_trading, pending_trade>>

\* the roster asked for by load_character_list comes back
RosterAnswered == SpawnTick /\ spawn'.seen \in {"empty", "nonempty"}

\* a pending request_character is answered with presence
RequestAnswered == SpawnTick /\ requested /\ spawn'.present

\* the program's steps, its advances being those of a well-behaved session
LiveNext ==
    \/ MainTick /\ Wellbehaved
    \/ OnEvent
    \/ SpawnLoad
    \/ SpawnWhile
    \/ SpawnTick /\ Wellbehaved
    \/ UntilTick /\ Wellbehaved
    \/ UntilCleanup
    \/ UntilClock
    \/ SpawnCleanup
    \/ SpawnClock
    \/ Negotiate
    \/ MainEvents
    \/ MainCleanup
    \/ MainClock

\* the thread always runs (it is the only one, and nothing in it blocks); the
\* server's answers arrive in some advance of the loop that waits for them
LiveSpec ==
    /\ Init /\ [][LiveNext]_vars
    /\ WF_vars(LiveNext)
    /\ SF_vars(RosterAnswered /\ Wellbehaved)
    /\ SF_vars(RequestAnswered /\ Wellbehaved)

\* ---------------------------------------------------------------- properties
Count(op, seq) == Cardinality({i \in DOMAIN seq : seq[i].op = op})

\* steps, as seen from outside the actions
AdvStep == pc \in {"main_tick", "spawn_tick", "until_tick"} /\ pc' # pc
ClockStep == pc \in {"main_clock", "spawn_clock", "until_clock"} /\ pc' # pc
NegStep == pc = "negotiate" /\ pc' # pc
SpawnStep == pc = "spawn_tick" /\ pc' # pc

\* the actions a step added to those issued since the last advance
NewActs == IF AdvStep THEN acts' ELSE SubSeq(acts', Len(acts) + 1, Len(acts'))

\* the alias an identity resolves to, "Unknown" when the roster lacks it
ResolvedAlias(uid) ==
    IF \E u \in DOMAIN player_list : u = uid THEN player_list[uid] ELSE "Unknown"

\* C1: in an until call none of whose advances failed, the predicate is
\* evaluated once after every advance, it was false after each advance but
\* the last, and as soon as it holds (after the k-th advance) the call has
\* returned Ok with the events of that k-th advance - k advances, no more.
C1_UntilReturnsOnFirstHold ==
    LET h == call.hist
        k == Len(h)
    IN  (k > 0 /\ \A i \in 1..k : h[i] # "E") =>
          /\ call.evals = k
          /\ \A i \in 1..(k - 1) : h[i] = "F"
          /\ h[k] = "T" => /\ pc = "spawn_cleanup"
                           /\ lastAdv = [who |-> "until", ok |-> TRUE]
                           /\ tick = [ok |-> TRUE, events |-> call.got]
          /\ h[k] = "F" => pc \in {"until_cleanup", "until_clock", "until_tick"}

C1_Witness ==
    /\ pc = "spawn_cleanup"
    /\ Len(call.hist) = 3
    /\ call.hist[3] = "T"
    /\ tick.ok /\ tick.events # <<>>

\* C2: an until call whose advance fails has returned the failure at once: the
\* failing advance is the call's last, the predicate was not evaluated on it,
\* no cleanup and no clock step followed it, and the failure ends the run.
C2_UntilFailsAtOnce ==
    LET h == call.hist
        k == Len(h)
    IN  (\E i \in 1..k : h[i] = "E") =>
          /\ h[k] = "E" /\ \A i \in 1..(k - 1) : h[i] = "F"
          /\ call.evals = k - 1
          /\ call.cleanup = k - 1 /\ call.clock = k - 1
          /\ gap = NoGap
          /\ ~tick.ok
          /\ lastAdv = [who |-> "until", ok |-> FALSE]
          /\ pc = "panicked"

C2_Witness ==
    /\ pc = "panicked"
    /\ call.hist = <<"F", "E">>
    /\ call.cleanup = 1

\* C3: no advance is performed once an advance has failed, in any loop.
C3_NoAdvanceAfterFailure == [][AdvStep => lastAdv.ok]_vars

\* C4: when main's own advance fails the loop has ended: nothing was issued,
\* no event was handled, no cleanup or clock step followed, and no advance
\* follows (the failed advance stays the most recent one).
C4_MainFailureEndsLoop ==
    (lastAdv.who = "main" /\ ~lastAdv.ok) =>
        /\ pc = "done"
        /\ acts = <<>> /\ events = <<>>
        /\ gap = NoGap /\ stage["main"] = "adv"

C4_Witness ==
    /\ pc = "done"
    /\ lastAdv = [who |-> "main", ok |-> FALSE]
    /\ presence

C6_UnknownInviterDeclined ==
    [][ (NegStep /\ invite # None /\ Head(invite) \notin DOMAIN player_list
           /\ target # "Unknown") =>
            Count("decline_invite", NewActs) = 1 ]_vars

\* C7: a negotiation step that finds a trade active and pending with the first
\* party's alias equal to the target issues exactly one
\* perform_trade_action(Accept(phase)) with the phase of that snapshot; one
\* that finds a pending trade whose first party's alias differs issues no
\* trade action.
C7_TradeDecision ==
    [][ NegStep =>
          LET trade == SelectSeq(NewActs, LAMBDA a : a.op = "perform_trade_action")
          IN  pending_trade # None =>
                LET pending == pending_trade[1]
                    first == ResolvedAlias(pending.parties[1])
                IN  /\ (is_trading /\ first = target) =>
                          trade = <<Act("perform_trade_action", 0, pending.phase)>>
                    /\ first # target => trade = <<>>
      ]_vars

C7_Witness ==
    /\ pc = "main_events"
    /\ is_trading
    /\ pending_trade # None
    /\ \E i \in DOMAIN acts : acts[i] = Act("perform_trade_action", 0, "Review")

\* C8: a spawn step whose advance leaves the roster loaded and non-empty
\* issues one request_character with the id of the first roster entry and no
\* create_character, no other spawn step issues a request_character, and a
\* spawn whose roster loaded non-empty issues no create_character at all.
C8_RequestsFirstEntry ==
    /\ [](spawn.first = "nonempty" => spawn.creates = "none")
    /\ [][ SpawnStep =>
             IF spawn'.seen = "nonempty"
             THEN acts' = <<Act("request_character", character_list'.characters[1], "")>>
             ELSE Count("request_character", acts') = 0
         ]_vars

C8_Witness ==
    /\ pc = "spawn_cleanup"
    /\ character_list = [loading |-> FALSE, characters |-> <<2, 1>>]
    /\ acts = <<Act("request_character", 2, "")>>
    /\ spawn.first = "nonempty" /\ spawn.creates = "none"

\* C9 (as claimed): a spawn whose roster loaded empty issues exactly one
\* create_character, and issues it before any request_character.
C9_ExactlyOneCreate ==
    spawn.first = "empty" => (spawn.creates = "one" /\ spawn.firstOp = "create")

\* C9 (amended): a spawn whose roster loaded empty issues a create_character
\* before any request_character; a spawn step whose advance succeeds and
\* leaves the roster loaded and empty issues exactly one create_character,
\* with the fixed name and no request_character, and enters the confirmation
\* wait; no other spawn step issues a create_character.
C9_CreateOnEmptyRoster ==
    /\ [](spawn.first = "empty" => (spawn.creates # "none" /\ spawn.firstOp = "create"))
    /\ [][ SpawnStep =>
             IF spawn'.seen = "empty"
             THEN /\ acts' = <<Act("create_character", 0, "Inventory Character")>>
                  /\ pc' = "until_tick"
             ELSE Count("create_character", acts') = 0
         ]_vars

C9_Witness ==
    /\ pc = "spawn_cleanup"
    /\ spawn.first = "empty"
    /\ spawn.creates = "one"
    /\ spawn.firstOp = "create"
    /\ Count("request_character", acts) = 1

\* C10 (as claimed): every advance but the first comes after exactly one
\* cleanup and one clock step since the advance before it, and no clock step
\* follows another without an advance between them.
C10_GlobalTickOrder ==
    [][ /\ AdvStep => (lastAdv.who = "none" \/ gap = <<"cleanup", "clock">>)
        /\ ClockStep => \A i \in DOMAIN gap : gap[i] # "clock"
      ]_vars

\* C10 (amended): the order holds per loop.  In each of main, spawn and until,
\* an advance starts the iteration or follows that loop's clock step, the
\* loop's actions are issued after its advance and before its cleanup, its
\* cleanup follows its advance and its clock step follows its cleanup.
C10_PerLoopTickOrder ==
    [][ /\ \A l \in Loops :
              /\ (pc = l \o "_tick" /\ pc' # pc) => stage[l] \in {"idle", "clock"}
              /\ (pc = l \o "_cleanup" /\ pc' # pc) => stage[l] = "adv"
              /\ (pc = l \o "_clock" /\ pc' # pc) => stage[l] = "cleanup"
        /\ (pc \in {"negotiate", "main_events"} /\ pc' # pc) => stage["main"] = "adv"
        /\ (~AdvStep /\ pc \notin {"negotiate", "main_events"}) => Len(acts') <= Len(acts)
      ]_vars

C10_Witness ==
    /\ pc = "spawn_cleanup"
    /\ lastAdv.who = "until"
    /\ stage = [l \in Loops |-> "adv"]
    /\ call.cleanup = 1 /\ call.clock = 1

\* C11: inside one until call the k-th advance is followed, unless it is the
\* returning one, by exactly one cleanup and then exactly one clock step
\* before the next advance (one advance per clock tick); a call that has
\* returned after k advances has performed k-1 cleanups and k-1 clock steps
\* and none after the returning advance.
C11_UntilOneAdvancePerTick ==
    LET k == Len(call.hist)
        returned == k > 0 /\ pc \in {"spawn_cleanup", "panicked"}
    IN  /\ returned => /\ call.cleanup = k - 1 /\ call.clock = k - 1
                       /\ gap = NoGap /\ stage["until"] = "adv"
        /\ pc = "until_cleanup" => /\ call.cleanup = k - 1 /\ call.clock = k - 1
                                   /\ gap = NoGap
        /\ pc = "until_clock" => /\ call.cleanup = k /\ call.clock = k - 1
                                 /\ gap = <<"cleanup">>
        /\ (pc = "until_tick" /\ k > 0) => /\ call.cleanup = k /\ call.clock = k
                                           /\ gap = <<"cleanup", "clock">>

C11_Witness ==
    /\ pc = "spawn_cleanup"
    /\ call.hist = <<"F", "F", "T">>
    /\ call.cleanup = 2 /\ call.clock = 2
    /\ gap = NoGap

\* C12: a spawn step issues request_character or create_character only when
\* the session still has no presence after the step's advance; a step whose
\* advance made presence non-absent issues nothing.
C12_SpawnActsOnlyWhileAbsent ==
    [][ (SpawnStep /\ spawn'.present) => acts' = <<>> ]_vars

\* C13: the negotiation runs only in game and spawn starts only out of it:
\* the invite and trade branches are entered with presence present, whatever
\* accept_invite, decline_invite or perform_trade_action the tick has issued
\* was issued with presence present, and spawn_first_character is entered,
\* and its loop body run, only with presence absent.
C13_NegotiationAfterSpawn ==
    /\ pc = "negotiate" => presence
    /\ (\E i \in DOMAIN acts :
           acts[i].op \in {"accept_invite", "decline_invite", "perform_trade_action"})
          => (presence /\ pc \in {"main_events", "main_cleanup"})
    /\ pc \in {"spawn_load", "spawn_tick"} => ~presence

C13_Witness ==
    /\ pc = "main_events"
    /\ presence
    /\ lastAdv = [who |-> "spawn", ok |-> TRUE]
    /\ acts = <<Act("decline_invite", 0, ""), Act("perform_trade_action", 0, "Mutate")>>

\* C14: an advance that fails inside the wait started after create_character
\* ends the spawn for good: the wait has returned the failure, control is in
\* the abort (expect's panic), nothing was issued after the failed advance
\* and no step follows - no advance, no request_character and no further
\* create_character.
C14_FailedConfirmationIsFatal ==
    /\ []( (\E i \in DOMAIN call.hist : call.hist[i] = "E") =>
             /\ pc = "panicked"
             /\ lastAdv = [who |-> "until", ok |-> FALSE]
             /\ acts = <<>>
             /\ spawn.creates # "none" )
    /\ [][ pc # "panicked" ]_vars

C14_Witness ==
    /\ pc = "panicked"
    /\ call.hist = <<"E">>
    /\ spawn.creates = "one"
    /\ ~presence

\* C15: whether a negotiation step issues the trade accept depends on the
\* alias of the first party alone (given an active, pending trade): a trade
\* whose second party is the target and whose first party is not gets no
\* trade action; the inventory summaries are made only along with an accept,
\* issue nothing on the client and, whatever they resolve, leave the accept
\* as it is.
C15_TradeDecisionPositional ==
    [][ NegStep =>
          LET trade == SelectSeq(NewActs, LAMBDA a : a.op = "perform_trade_action")
              parties == pending_trade[1].parties
              accepts == /\ is_trading /\ pending_trade # None
                         /\ ResolvedAlias(parties[1]) = target
          IN  /\ Len(trade) = IF accepts THEN 1 ELSE 0
              /\ (pending_trade # None /\ ResolvedAlias(parties[2]) = target
                     /\ ResolvedAlias(parties[1]) # target) => trade = <<>>
              /\ \A i \in DOMAIN NewActs :
                    NewActs[i].op \in {"accept_invite", "decline_invite", "perform_trade_action"}
              /\ (party_inventories' # NoInventories) <=> accepts
              /\ accepts => NewActs[Len(NewActs)] = trade[1]
      ]_vars

C15_Witness ==
    /\ pc = "main_events"
    /\ party_inventories = <<"None", "Some">>
    /\ pending_trade = Some([parties |-> <<1, 2>>, phase |-> "Mutate"])
    /\ acts = <<Act("perform_trade_action", 0, "Mutate")>>

\* the invite and trade actions as a function of nothing but a snapshot
\* (pending invite, trade flag, pending trade, player roster) and the target
Decision(inv, trading, trade, players, tgt) ==
    LET known(u) == \E v \in DOMAIN players : v = u
        onInvite == IF inv # None /\ known(inv[1])
                    THEN IF players[inv[1]] = tgt
                         THEN <<Act("accept_invite", 0, "")>>
                         ELSE <<Act("decline_invite", 0, "")>>
                    ELSE <<>>
        first == trade[1].parties[1]
        onTrade == IF trading /\ trade # None
                      /\ (IF known(first) THEN players[first] ELSE "Unknown") = tgt
                   THEN <<Act("perform_trade_action", 0, trade[1].phase)>>
                   ELSE <<>>
    IN  onInvite \o onTrade

\* C16: the invite and trade actions a negotiation step issues are one fixed
\* function of the session snapshot it runs on and of the target: two steps
\* on equal snapshots with the same target issue the same sequence, whatever
\* happened in earlier ticks, whether the tick had to spawn first, and
\* whatever the clock did.
C16_NegotiationDeterministic ==
    [][ NegStep =>
          NewActs = Decision(invite, is_trading, pending_trade, player_list, target) ]_vars

C16_Witness ==
    /\ pc = "main_events"
    /\ lastAdv.who = "spawn"
    /\ stage["main"] = "adv" /\ stage["spawn"] = "idle"
    /\ acts = <<Act("accept_invite", 0, ""), Act("perform_trade_action", 0, "Review")>>

\* C17: a negotiation step issues accept_invite only for an inviter, and the
\* trade accept only for a first party, that is in the player roster with
\* alias equal to the target; an identity the roster lacks is never
\* accepted, whatever the target is.
C17_AcceptOnlyResolvedTarget ==
    [][ NegStep =>
          /\ Count("accept_invite", NewActs) > 0 =>
                /\ invite # None
                /\ \E u \in DOMAIN player_list : u = invite[1] /\ player_list[u] = target
          /\ Count("perform_trade_action", NewActs) > 0 =>
                /\ pending_trade # None
                /\ \E u \in DOMAIN player_list :
                      u = pending_trade[1].parties[1] /\ player_list[u] = target
      ]_vars

\* C18: send_invite(Trade) is issued only by the event loop of main, between
\* the negotiation and the tick's cleanup: once, in order, for each Tell among
\* the events of main's own advance of that tick whose sender's alias is the
\* target, and for nothing else.  The events main handles are those its own
\* advance returned (the spawn loop and until never touch them), and what an
\* advance inside the spawn loop or until returned leads to no send_invite.
C18_InvitesFromMainEventsOnly ==
    /\ [](Count("send_invite", acts) > 0 => pc = "main_cleanup")
    /\ [][  /\ (pc = "main_events" /\ pc' # pc) =>
                LET tells == SelectSeq(events, LAMBDA e :
                                 e.kind = "Tell" /\ ResolvedAlias(e.from) = target)
                IN  /\ stage["main"] = "adv"
                    /\ SubSeq(acts', 1, Len(acts)) = acts
                    /\ Len(NewActs) = Len(tells)
                    /\ \A i \in DOMAIN tells :
                          NewActs[i] = Act("send_invite", tells[i].from, "Trade")
                    /\ pc' = "main_cleanup"
            /\ pc # "main_events" =>
                  Count("send_invite", acts') <= Count("send_invite", acts)
            /\ pc \notin {"main_tick", "main_cleanup"} => events' = events
            /\ (pc = "main_tick" /\ pc' # pc) => lastAdv'.who = "main"
      ]_vars

C18_Witness ==
    /\ pc = "main_cleanup"
    /\ lastAdv.who = "spawn"
    /\ events = <<[kind |-> "Tell", from |-> 1]>>
    /\ acts = <<Act("accept_invite", 0, ""), Act("send_invite", 1, "Trade")>>

\* C19: on a well-behaved session a spawn that has started ends: from the
\* entry of spawn_first_character the program gets to the point where the
\* function has returned with presence present, and from there main's loop
\* gets back to its next advance.
C19_SpawnReachesPresent ==
    /\ (pc = "spawn_load") ~> (pc = "negotiate" /\ presence)
    /\ (pc = "negotiate") ~> (pc = "main_tick")

C19_Witness ==
    /\ pc = "main_tick"
    /\ presence
    /\ lastAdv = [who |-> "spawn", ok |-> TRUE]
    /\ stage["main"] = "clock"
    /\ character_list.characters # <<>>
====
